---------------------------- MODULE Spec2Model ----------------------------
(***************************************************************************)
(* A model of the annotation data model of koalanlp (src/src/data.js):     *)
(* Morpheme, Word, Tree/SyntaxTree, DepEdge, RoleEdge, Entity,             *)
(* CoreferenceGroup and Sentence objects, their one-time-write back        *)
(* references, the immutable array they extend, the reconstruction of a    *)
(* Sentence from a foreign (Java) sentence and the views derived from the  *)
(* objects.                                                                *)
(*                                                                         *)
(* Objects live in heaps (one sequence per class); an object's identity is *)
(* its index in the heap of its class.  A constructor is an operator from  *)
(* the heaps to the heaps it leaves behind, the object it built and        *)
(* whether it threw; every action is one call made by client code, and     *)
(* `call` records the call and its outcome.                                *)
(***************************************************************************)
EXTENDS Integers, Sequences, FiniteSets, TLC

(***************************************************************************)
(* Bounds of the model.                                                    *)
(***************************************************************************)
MaxMorphemes == 3
MaxWords == 3
MaxTrees == 3
MaxEntities == 2
MaxGroups == 2
MaxSentences == 2
MaxLen == 2

\* The value of a field nothing was assigned to (JavaScript's undefined).
\* Object identities are >= 1 and positions are >= 0, so -1 is neither.
undefined == 0 - 1

\* undefined where a string is expected.
undefinedString == "undefined"

VARIABLES
    assertThrows,   \* whether console.assert throws in this runtime
    morphemes,      \* heap of Morpheme objects
    words,          \* heap of Word objects
    trees,          \* heap of Tree / SyntaxTree objects
    edges,          \* heap of DepEdge / RoleEdge objects
    entities,       \* heap of Entity objects
    groups,         \* heap of CoreferenceGroup objects
    sentences,      \* heap of Sentence objects
    call            \* the last call made by the client and its outcome

vars == <<assertThrows, morphemes, words, trees, edges, entities, groups,
          sentences, call>>

\* The heaps, as one value.
Graph ==
    [morphemes |-> morphemes, words |-> words, trees |-> trees,
     edges |-> edges, entities |-> entities, groups |-> groups,
     sentences |-> sentences]

(***************************************************************************)
(* Helpers on sequences and sets.                                          *)
(***************************************************************************)
Range(s) == {s[i] : i \in DOMAIN s}

\* All sequences over S of length at most n.
SeqsUpTo(S, n) == UNION {[1..k -> S] : k \in 0..n}

\* Sequences without repetition.
Distinct(s) == \A i, j \in DOMAIN s : i # j => s[i] # s[j]

Min(S) == CHOOSE x \in S : \A y \in S : x <= y

Max(S) == CHOOSE x \in S : \A y \in S : y <= x

\* The elements of a set of numbers, ascending.
RECURSIVE AscendingSeq(_)
AscendingSeq(S) ==
    IF S = {} THEN <<>> ELSE <<Min(S)>> \o AscendingSeq(S \ {Min(S)})

(***************************************************************************)
(* console.assert: package.json allows node >= 8.0.0.  Up to node 9 a      *)
(* failed console.assert throws an AssertionError; from node 10 on it only *)
(* prints the message and the statement after it runs.  The operator is    *)
(* true when the call throws.                                              *)
(***************************************************************************)
consoleAssert(cond) == (~cond) /\ assertThrows

isDefined(value) == value # undefined

isDefinedString(value) == value # undefinedString

getOrUndefined(value) == IF isDefined(value) THEN value ELSE undefined

(***************************************************************************)
(* writeonlyonce: the setter installed on a one-time-write field.  The     *)
(* result is the value the field holds afterwards and whether the          *)
(* assignment threw.                                                       *)
(***************************************************************************)
writeonlyonce(value, newValue) ==
    IF consoleAssert(~isDefined(value))
    THEN [value |-> value, threw |-> TRUE]
    ELSE [value |-> newValue, threw |-> FALSE]

(***************************************************************************)
(* replaceableifempty: the setter installed on a Sentence's derived        *)
(* collections.  The stored value starts as the empty list.                *)
(***************************************************************************)
replaceableifempty(value, newValue) ==
    IF consoleAssert(Len(value) = 0)
    THEN [value |-> value, threw |-> TRUE]
    ELSE [value |-> newValue, threw |-> FALSE]

\* What a constructor or an assignment leaves: the heaps, the object it is
\* about and whether it threw.
Ret(G, obj, threw) == [G |-> G, obj |-> obj, threw |-> threw]

\* F applied to the value of an expression, the expression evaluated once.
Bind(value, F(_)) == CHOOSE out \in {F(x) : x \in {value}} : TRUE

\* obj.field = newValue for a one-time-write field of an object of `heap`.
WriteField(G, heap, obj, field, newValue) ==
    LET r == writeonlyonce(G[heap][obj][field], newValue)
    IN  Ret([G EXCEPT ![heap][obj][field] = r.value], obj, r.threw)

\* obj.field = newValue for a derived collection of a Sentence.
ReplaceField(G, obj, field, newValue) ==
    LET r == replaceableifempty(G.sentences[obj][field], newValue)
    IN  Ret([G EXCEPT !.sentences[obj][field] = r.value], obj, r.threw)

\* The constructor of `obj` returns (or is left by an exception).
Finish(r, heap, obj) ==
    Ret([r.G EXCEPT ![heap][obj].done = ~r.threw], obj, r.threw)

\* The objects whose constructor returned: the ones client code holds.
Done(heap) == {i \in DOMAIN heap : heap[i].done}

(***************************************************************************)
(* JavaMixin: the foreign object behind a native one.  <<>> is a reference *)
(* nothing was assigned to, <<j>> the reference to the foreign object j.   *)
(***************************************************************************)
noReference == <<>>

(***************************************************************************)
(* Morpheme                                                                *)
(***************************************************************************)
\* _initReference: the foreign morpheme built from a native one.
Morpheme_initReference(surface, tag) == [surface |-> surface, tag |-> tag]

\* The constructor reads this.reference after storing the one it was given:
\* without one, the getter builds the foreign morpheme then.
Morpheme_constructor(G, surface, tag, reference) ==
    Ret([G EXCEPT !.morphemes = Append(@,
            [surface |-> surface, tag |-> tag, id |-> undefined,
             word |-> undefined, entities |-> <<>>,
             reference |-> IF reference = noReference
                           THEN <<Morpheme_initReference(surface, tag)>>
                           ELSE reference,
             done |-> TRUE])],
        Len(G.morphemes) + 1, FALSE)

(***************************************************************************)
(* Word                                                                    *)
(***************************************************************************)
\* The constructor's loop from the i-th morpheme on: morph.word = this;
\* morph.id = i.  It stops at the first assignment that throws.
RECURSIVE Word_link(_, _, _, _)
Word_link(G, w, ms, i) ==
    IF i > Len(ms) THEN Ret(G, w, FALSE)
    ELSE LET r1 == WriteField(G, "morphemes", ms[i], "word", w)
         IN  IF r1.threw THEN r1
             ELSE LET r2 == WriteField(r1.G, "morphemes", ms[i], "id", i - 1)
                  IN  IF r2.threw THEN r2
                      ELSE Word_link(r2.G, w, ms, i + 1)

Word_constructor(G, surface, ms, reference) ==
    IF consoleAssert(isDefinedString(surface) /\ Len(ms) > 0)
    THEN Ret(G, undefined, TRUE)
    ELSE LET w == Len(G.words) + 1
             G1 == [G EXCEPT !.words = Append(@,
                        [surface |-> surface, items |-> ms, id |-> undefined,
                         phrase |-> undefined, governorEdge |-> undefined,
                         dependentEdges |-> <<>>, argumentRoles |-> <<>>,
                         predicateRoles |-> <<>>, entities |-> <<>>,
                         reference |-> reference, done |-> FALSE])]
         IN  Finish(Word_link(G1, w, ms, 1), "words", w)

(***************************************************************************)
(* Tree / SyntaxTree                                                       *)
(***************************************************************************)
\* new Tree(label, terminal, children): the base class links nothing.
Tree_constructor(G, label, terminal, children, syntax) ==
    Ret([G EXCEPT !.trees = Append(@,
            [label |-> label, terminal |-> terminal, items |-> children,
             parent |-> undefined, syntax |-> syntax,
             reference |-> noReference, done |-> ~syntax])],
        Len(G.trees) + 1, FALSE)

\* SyntaxTree's loop over its children from the i-th on: child.parent = this.
RECURSIVE SyntaxTree_link(_, _, _, _)
SyntaxTree_link(G, t, children, i) ==
    IF i > Len(children) THEN Ret(G, t, FALSE)
    ELSE LET r == WriteField(G, "trees", children[i], "parent", t)
         IN  IF r.threw THEN r ELSE SyntaxTree_link(r.G, t, children, i + 1)

\* new SyntaxTree(label, terminal, children): term.phrase = this, then every
\* child.parent = this.
SyntaxTree_constructor(G, label, terminal, children) ==
    LET r0 == Tree_constructor(G, label, terminal, children, TRUE)
        t == r0.obj
        r1 == IF terminal # undefined
              THEN WriteField(r0.G, "words", terminal, "phrase", t)
              ELSE r0
        r2 == IF r1.threw THEN r1 ELSE SyntaxTree_link(r1.G, t, children, 1)
    IN  Finish(r2, "trees", t)

(***************************************************************************)
(* Entity                                                                  *)
(***************************************************************************)
\* The constructor's loop: morph.entities.push(this).
RECURSIVE Entity_link(_, _, _, _)
Entity_link(G, e, ms, i) ==
    IF i > Len(ms) THEN G
    ELSE Entity_link(
            [G EXCEPT !.morphemes[ms[i]].entities = Append(@, e)], e, ms, i + 1)

Entity_constructor(G, surface, label, fineLabel, ms) ==
    IF consoleAssert(/\ isDefinedString(surface)
                     /\ isDefinedString(label)
                     /\ isDefinedString(fineLabel))
    THEN Ret(G, undefined, TRUE)
    ELSE LET e == Len(G.entities) + 1
             G1 == [G EXCEPT !.entities = Append(@,
                        [surface |-> surface, label |-> label,
                         fineLabel |-> fineLabel, items |-> ms,
                         corefGroup |-> undefined, reference |-> noReference,
                         done |-> TRUE])]
         IN  Ret(Entity_link(G1, e, ms, 1), e, FALSE)

(***************************************************************************)
(* CoreferenceGroup                                                        *)
(***************************************************************************)
\* The constructor's loop: entity.corefGroup = this.  An undefined member
\* has no property to assign to: a TypeError in every runtime.
RECURSIVE CoreferenceGroup_link(_, _, _, _)
CoreferenceGroup_link(G, g, es, i) ==
    IF i > Len(es) THEN Ret(G, g, FALSE)
    ELSE IF ~isDefined(es[i]) THEN Ret(G, g, TRUE)
    ELSE LET r == WriteField(G, "entities", es[i], "corefGroup", g)
         IN  IF r.threw THEN r ELSE CoreferenceGroup_link(r.G, g, es, i + 1)

CoreferenceGroup_constructor(G, es) ==
    LET g == Len(G.groups) + 1
        G1 == [G EXCEPT !.groups = Append(@,
                    [items |-> es, reference |-> noReference, done |-> FALSE])]
    IN  Finish(CoreferenceGroup_link(G1, g, es, 1), "groups", g)

(***************************************************************************)
(* DAGEdge, DepEdge, RoleEdge                                              *)
(***************************************************************************)
DAGEdge_constructor(G, kind, src, dest, label) ==
    IF consoleAssert(isDefined(dest))
    THEN Ret(G, undefined, TRUE)
    ELSE Ret([G EXCEPT !.edges = Append(@,
                [kind |-> kind, src |-> src, dest |-> dest, label |-> label,
                 type |-> undefinedString, modifiers |-> <<>>,
                 reference |-> noReference, done |-> FALSE])],
             Len(G.edges) + 1, FALSE)

\* A variant that pushes the edge onto the dependent's list instead of the
\* governor's.
DepEdge_constructor_pushOnDependent(G, governor, dependent, type, depType) ==
    IF consoleAssert(isDefinedString(type))
    THEN Ret(G, undefined, TRUE)
    ELSE LET r0 == DAGEdge_constructor(G, "DepEdge", governor, dependent, depType)
             e == r0.obj
             G1 == [r0.G EXCEPT !.edges[e].type = type]
             r1 == IF isDefined(dependent)
                   THEN WriteField(G1, "words", dependent, "governorEdge", e)
                   ELSE Ret(G1, e, FALSE)
             G2 == IF isDefined(governor) /\ isDefined(dependent)
                   THEN [r1.G EXCEPT !.words[dependent].dependentEdges = Append(@, e)]
                   ELSE r1.G
         IN  IF r0.threw THEN r0
             ELSE IF r1.threw THEN Finish(r1, "edges", e)
             ELSE Finish(Ret(G2, e, FALSE), "edges", e)

\* new DepEdge(governor, dependent, type, depType): dest.governorEdge = this
\* and src.dependentEdges.push(this).
DepEdge_constructor(G, governor, dependent, type, depType) ==
    IF consoleAssert(isDefinedString(type))
    THEN Ret(G, undefined, TRUE)
    ELSE LET r0 == DAGEdge_constructor(G, "DepEdge", governor, dependent, depType)
             e == r0.obj
             G1 == [r0.G EXCEPT !.edges[e].type = type]
             r1 == IF isDefined(dependent)
                   THEN WriteField(G1, "words", dependent, "governorEdge", e)
                   ELSE Ret(G1, e, FALSE)
             G2 == IF isDefined(governor)
                   THEN [r1.G EXCEPT !.words[governor].dependentEdges = Append(@, e)]
                   ELSE r1.G
         IN  IF r0.threw THEN r0
             ELSE IF r1.threw THEN Finish(r1, "edges", e)
             ELSE Finish(Ret(G2, e, FALSE), "edges", e)

\* A variant that pushes the edge onto the argument's argumentRoles and the
\* predicate's predicateRoles.
RoleEdge_constructor_swapped(G, predicate, argument, label, modifiers) ==
    IF consoleAssert(isDefined(predicate) /\ isDefinedString(label))
    THEN Ret(G, undefined, TRUE)
    ELSE LET r0 == DAGEdge_constructor(G, "RoleEdge", predicate, argument, label)
             e == r0.obj
             G1 == [r0.G EXCEPT !.edges[e].modifiers = modifiers]
             G2 == IF isDefined(argument)
                   THEN [G1 EXCEPT !.words[argument].argumentRoles = Append(@, e)]
                   ELSE G1
             G3 == IF isDefined(predicate)
                   THEN [G2 EXCEPT !.words[predicate].predicateRoles = Append(@, e)]
                   ELSE G2
         IN  IF r0.threw THEN r0 ELSE Finish(Ret(G3, e, FALSE), "edges", e)

\* new RoleEdge(predicate, argument, label, modifiers):
\* dest.predicateRoles.push(this) and src.argumentRoles.push(this).
RoleEdge_constructor(G, predicate, argument, label, modifiers) ==
    IF consoleAssert(isDefined(predicate) /\ isDefinedString(label))
    THEN Ret(G, undefined, TRUE)
    ELSE LET r0 == DAGEdge_constructor(G, "RoleEdge", predicate, argument, label)
             e == r0.obj
             G1 == [r0.G EXCEPT !.edges[e].modifiers = modifiers]
             G2 == IF isDefined(argument)
                   THEN [G1 EXCEPT !.words[argument].predicateRoles = Append(@, e)]
                   ELSE G1
             G3 == IF isDefined(predicate)
                   THEN [G2 EXCEPT !.words[predicate].argumentRoles = Append(@, e)]
                   ELSE G2
         IN  IF r0.threw THEN r0 ELSE Finish(Ret(G3, e, FALSE), "edges", e)

(***************************************************************************)
(* Sentence, built from a list of Words                                    *)
(***************************************************************************)
\* The constructor's last loop: word.id = i.
RECURSIVE Sentence_link(_, _, _, _)
Sentence_link(G, s, ws, i) ==
    IF i > Len(ws) THEN Ret(G, s, FALSE)
    ELSE LET r == WriteField(G, "words", ws[i], "id", i - 1)
         IN  IF r.threw THEN r ELSE Sentence_link(r.G, s, ws, i + 1)

\* super(words) and the installation of the fields.
Sentence_super(G, ws) ==
    Ret([G EXCEPT !.sentences = Append(@,
            [items |-> ws, syntaxTree |-> undefined, dependencies |-> <<>>,
             roles |-> <<>>, entities |-> <<>>, corefGroups |-> <<>>,
             reference |-> noReference, done |-> FALSE])],
        Len(G.sentences) + 1, FALSE)

\* new Sentence(words)
Sentence_constructor(G, ws) ==
    LET r0 == Sentence_super(G, ws)
    IN  Finish(Sentence_link(r0.G, r0.obj, ws, 1), "sentences", r0.obj)

(***************************************************************************)
(* Equality.  _.isEqual (underscore) compares two values deeply: identical *)
(* values are equal, a value and undefined are not; two arrays are equal   *)
(* when they have the same length and equal elements (their other          *)
(* properties are not looked at); two other objects are equal when they    *)
(* have the same own enumerable keys with equal values.  A pair of objects *)
(* under comparison is kept on a stack: meeting the first of them again    *)
(* further down, the comparison answers whether it is met with the same    *)
(* partner.                                                                *)
(*                                                                         *)
(* The values compared are typed by where they come from: "Morpheme",      *)
(* "Word" and "Entity" are objects of the heaps, "entities" is the plain   *)
(* array morpheme.entities, named by the morpheme that owns it.            *)
(***************************************************************************)
\* Two foreign handles (morpheme._reference), compared as the foreign
\* values they stand for.
Reference_eq(a, b) == a = b

\* The stack entry of the comparison a value is under, 0 if there is none.
StackEntry(stack, cls, a) ==
    LET hits == {i \in DOMAIN stack : stack[i].cls = cls /\ stack[i].a = a}
    IN  IF hits = {} THEN 0 ELSE Max(hits)

RECURSIVE eq(_, _, _, _, _)
RECURSIVE deepEq(_, _, _, _, _)
\* The keys of a Morpheme: _reference, _surface, _tag, id, word, entities.
deepEq_Morpheme(G, a, b, stack) ==
    /\ eq(G, "entities", a, b, stack)
    /\ eq(G, "Word", G.morphemes[a].word, G.morphemes[b].word, stack)
    /\ G.morphemes[a].id = G.morphemes[b].id
    /\ G.morphemes[a].tag = G.morphemes[b].tag
    /\ G.morphemes[a].surface = G.morphemes[b].surface
    /\ Reference_eq(G.morphemes[a].reference, G.morphemes[b].reference)

\* The elements of an array of class cls, and the class of its elements.
ElementsIn(G, cls, a) ==
    CASE cls = "Word" -> G.words[a].items
      [] cls = "Entity" -> G.entities[a].items
      [] cls = "entities" -> G.morphemes[a].entities

ElementClass(cls) == IF cls = "entities" THEN "Entity" ELSE "Morpheme"

deepEq_Array(G, cls, a, b, stack) ==
    LET as == ElementsIn(G, cls, a)
        bs == ElementsIn(G, cls, b)
    IN  /\ Len(as) = Len(bs)
        /\ \A i \in DOMAIN as : eq(G, ElementClass(cls), as[i], bs[i], stack)

deepEq(G, cls, a, b, stack) ==
    LET entry == StackEntry(stack, cls, a)
        pushed == Append(stack, [cls |-> cls, a |-> a, b |-> b])
    IN  IF entry # 0 THEN stack[entry].b = b
        ELSE IF cls = "Morpheme" THEN deepEq_Morpheme(G, a, b, pushed)
        ELSE deepEq_Array(G, cls, a, b, pushed)

eq(G, cls, a, b, stack) ==
    IF a = b THEN TRUE
    ELSE IF a = undefined \/ b = undefined THEN FALSE
    ELSE deepEq(G, cls, a, b, stack)

\* _.isEqual(a, b) for two values of class cls.
isEqual(G, cls, a, b) == eq(G, cls, a, b, <<>>)

\* What the properties _label, fineLabel of a value read as and whether it
\* is an array.  A native Entity has them all.
EntityView(G, e) ==
    [_label |-> G.entities[e].label, fineLabel |-> G.entities[e].fineLabel,
     isArray |-> TRUE, obj |-> e]

\* A foreign (Java) object is reached through its methods: it has no
\* property _label or fineLabel and is no array.
JavaView ==
    [_label |-> undefinedString, fineLabel |-> undefinedString,
     isArray |-> FALSE, obj |-> undefined]

\* ImmutableArray.equals: typeof(other) === typeof(this) holds of any two
\* objects; _.isEqual of an array and a value that is no array is false.
ImmutableArray_equals(G, cls, a, other) ==
    /\ other.isArray
    /\ isEqual(G, cls, a, other.obj)

Entity_equals(G, e, other) ==
    /\ G.entities[e].label = other._label
    /\ G.entities[e].fineLabel = other.fineLabel
    /\ ImmutableArray_equals(G, "Entity", e, other)

\* Morpheme.equals, for another Morpheme.
Morpheme_equals(G, m, other) ==
    /\ G.morphemes[m].surface = G.morphemes[other].surface
    /\ G.morphemes[m].tag = G.morphemes[other].tag

\* Word.equals, for another Word.
Word_equals(G, w, other) ==
    /\ ImmutableArray_equals(G, "Word", w, [isArray |-> TRUE, obj |-> other])
    /\ G.words[w].surface = G.words[other].surface

(***************************************************************************)
(* Sentence, reconstructed from a foreign sentence.  A foreign sentence is *)
(* a record of its words (surface, morphemes), its optional phrase tree,   *)
(* its dependency edges, role edges, entities and coreference groups;      *)
(* foreign words and morphemes are referred to by position, foreign        *)
(* entities by their place in the sentence's list.                         *)
(***************************************************************************)
\* JVM.toJsArray(w, (m) => new Morpheme(...)): the morphemes of one word.
RECURSIVE Sentence_morphemes(_, _, _)
Sentence_morphemes(G, jmorphs, k) ==
    IF k > Len(jmorphs) THEN [G |-> G, items |-> <<>>]
    ELSE Bind(Morpheme_constructor(G, jmorphs[k].surface, jmorphs[k].tag,
                                   <<jmorphs[k]>>), LAMBDA r :
         Bind(Sentence_morphemes(r.G, jmorphs, k + 1), LAMBDA rest :
            [G |-> rest.G, items |-> <<r.obj>> \o rest.items]))

\* JVM.toJsArray(reference, (w) => new Word(...)): the words.
RECURSIVE Sentence_words(_, _, _)
Sentence_words(G, jwords, i) ==
    IF i > Len(jwords) THEN [G |-> G, items |-> <<>>, threw |-> FALSE]
    ELSE Bind(Sentence_morphemes(G, jwords[i].morphemes, 1), LAMBDA ms :
         Bind(Word_constructor(ms.G, jwords[i].surface, ms.items,
                               <<jwords[i]>>), LAMBDA r :
            IF r.threw THEN [G |-> r.G, items |-> <<>>, threw |-> TRUE]
            ELSE Bind(Sentence_words(r.G, jwords, i + 1), LAMBDA rest :
                    [G |-> rest.G, items |-> <<r.obj>> \o rest.items,
                     threw |-> rest.threw])))

\* this[jword.getId()]
Sentence_getWord(G, s, jword) ==
    IF isDefined(jword)
    THEN IF jword + 1 \in DOMAIN G.sentences[s].items
         THEN G.sentences[s].items[jword + 1] ELSE undefined
    ELSE undefined

\* this[jmorph.getWord().getId()][jmorph.getId()]
Sentence_getMorph(G, s, jmorph) ==
    LET w == Sentence_getWord(G, s, jmorph.word)
    IN  IF jmorph.id + 1 \in DOMAIN G.words[w].items
        THEN G.words[w].items[jmorph.id + 1] ELSE undefined

\* _reconSyntaxTree(jtree): the children first, then the node.  A foreign
\* tree that is absent is the empty sequence.
RECURSIVE Sentence_reconSyntaxTree(_, _, _)
RECURSIVE Sentence_reconChildren(_, _, _, _)
Sentence_reconChildren(G, s, jchildren, i) ==
    IF i > Len(jchildren) THEN [G |-> G, items |-> <<>>, threw |-> FALSE]
    ELSE Bind(Sentence_reconSyntaxTree(G, s, <<jchildren[i]>>), LAMBDA r :
            IF r.threw THEN [G |-> r.G, items |-> <<>>, threw |-> TRUE]
            ELSE Bind(Sentence_reconChildren(r.G, s, jchildren, i + 1),
                      LAMBDA rest :
                    [G |-> rest.G, items |-> <<r.obj>> \o rest.items,
                     threw |-> rest.threw]))

Sentence_reconSyntaxTree(G, s, jtree) ==
    IF Len(jtree) = 0 THEN Ret(G, undefined, FALSE)
    ELSE Bind(Sentence_reconChildren(G, s, jtree[1].children, 1),
              LAMBDA nonTerms :
            IF nonTerms.threw THEN Ret(nonTerms.G, undefined, TRUE)
            ELSE Bind(SyntaxTree_constructor(nonTerms.G, jtree[1].label,
                        Sentence_getWord(G, s, jtree[1].terminal),
                        nonTerms.items), LAMBDA r :
                    IF r.threw THEN r
                    ELSE Ret([r.G EXCEPT !.trees[r.obj].reference = jtree],
                             r.obj, FALSE)))

\* JVM.toJsArray(reference.getDependencies(), (x) => this._getDepEdge(x))
RECURSIVE Sentence_getDepEdges(_, _, _, _)
Sentence_getDepEdges(G, s, jedges, i) ==
    IF i > Len(jedges) THEN [G |-> G, items |-> <<>>, threw |-> FALSE]
    ELSE Bind(DepEdge_constructor(G,
                    Sentence_getWord(G, s, jedges[i].governor),
                    Sentence_getWord(G, s, jedges[i].dependent),
                    jedges[i].type, jedges[i].depType), LAMBDA r :
            IF r.threw THEN [G |-> r.G, items |-> <<>>, threw |-> TRUE]
            ELSE Bind(Sentence_getDepEdges(
                        [r.G EXCEPT !.edges[r.obj].reference = <<jedges[i]>>],
                        s, jedges, i + 1), LAMBDA rest :
                    [G |-> rest.G, items |-> <<r.obj>> \o rest.items,
                     threw |-> rest.threw]))

\* JVM.toJsArray(e.getModifiers(), (x) => this._getWord(x))
Sentence_getWords(G, s, jwords) ==
    [k \in DOMAIN jwords |-> Sentence_getWord(G, s, jwords[k])]

\* JVM.toJsArray(reference.getRoles(), (x) => this._getRole(x))
RECURSIVE Sentence_getRoles(_, _, _, _)
Sentence_getRoles(G, s, jedges, i) ==
    IF i > Len(jedges) THEN [G |-> G, items |-> <<>>, threw |-> FALSE]
    ELSE Bind(RoleEdge_constructor(G,
                    Sentence_getWord(G, s, jedges[i].predicate),
                    Sentence_getWord(G, s, jedges[i].argument),
                    jedges[i].label,
                    Sentence_getWords(G, s, jedges[i].modifiers)), LAMBDA r :
            IF r.threw THEN [G |-> r.G, items |-> <<>>, threw |-> TRUE]
            ELSE Bind(Sentence_getRoles(
                        [r.G EXCEPT !.edges[r.obj].reference = <<jedges[i]>>],
                        s, jedges, i + 1), LAMBDA rest :
                    [G |-> rest.G, items |-> <<r.obj>> \o rest.items,
                     threw |-> rest.threw]))

\* _getEntity(e): a new Entity over the native morphemes e refers to.
Sentence_getEntity(G, s, e) ==
    Bind(Entity_constructor(G, e.surface, e.label, e.fineLabel,
            [k \in DOMAIN e.morphemes |->
                Sentence_getMorph(G, s, e.morphemes[k])]), LAMBDA r :
        IF r.threw THEN r
        ELSE Ret([r.G EXCEPT !.entities[r.obj].reference = <<e>>],
                 r.obj, FALSE))

\* JVM.toJsArray(reference.getEntities(), (x) => this._getEntity(x))
RECURSIVE Sentence_getEntities(_, _, _, _)
Sentence_getEntities(G, s, jentities, i) ==
    IF i > Len(jentities) THEN [G |-> G, items |-> <<>>, threw |-> FALSE]
    ELSE Bind(Sentence_getEntity(G, s, jentities[i]), LAMBDA r :
            IF r.threw THEN [G |-> r.G, items |-> <<>>, threw |-> TRUE]
            ELSE Bind(Sentence_getEntities(r.G, s, jentities, i + 1),
                      LAMBDA rest :
                    [G |-> rest.G, items |-> <<r.obj>> \o rest.items,
                     threw |-> rest.threw]))

\* this.entities.find((enty) => enty.equals(e)) for a value that reads as
\* `other`: the first native entity equal to it, or undefined.
Sentence_findEntity(G, s, other) ==
    LET es == G.sentences[s].entities
        hits == {i \in DOMAIN es : Entity_equals(G, es[i], other)}
    IN  IF hits = {} THEN undefined ELSE es[Min(hits)]

\* The callback of _getCorefGroup over the members of the foreign group c:
\* _getEntity(e) builds one more Entity, left unused, and the member is
\* looked up among this.entities by comparing each with the foreign e.
RECURSIVE Sentence_getCorefMembers(_, _, _, _)
Sentence_getCorefMembers(G, s, c, i) ==
    IF i > Len(c) THEN [G |-> G, items |-> <<>>, threw |-> FALSE]
    ELSE Bind(Sentence_getEntity(G, s, c[i]), LAMBDA referenced :
            IF referenced.threw
            THEN [G |-> referenced.G, items |-> <<>>, threw |-> TRUE]
            ELSE Bind(Sentence_getCorefMembers(referenced.G, s, c, i + 1),
                      LAMBDA rest :
                    [G |-> rest.G,
                     items |-> <<Sentence_findEntity(referenced.G, s, JavaView)>>
                               \o rest.items,
                     threw |-> rest.threw]))

\* _getCorefGroup(c)
Sentence_getCorefGroup(G, s, c) ==
    Bind(Sentence_getCorefMembers(G, s, c, 1), LAMBDA members :
        IF members.threw THEN Ret(members.G, undefined, TRUE)
        ELSE Bind(CoreferenceGroup_constructor(members.G, members.items),
                  LAMBDA r :
                IF r.threw THEN r
                ELSE Ret([r.G EXCEPT !.groups[r.obj].reference = <<c>>],
                         r.obj, FALSE)))

\* JVM.toJsArray(reference.getCorefGroups(), (x) => this._getCorefGroup(x))
RECURSIVE Sentence_getCorefGroups(_, _, _, _)
Sentence_getCorefGroups(G, s, jgroups, i) ==
    IF i > Len(jgroups) THEN [G |-> G, items |-> <<>>, threw |-> FALSE]
    ELSE Bind(Sentence_getCorefGroup(G, s, jgroups[i]), LAMBDA r :
            IF r.threw THEN [G |-> r.G, items |-> <<>>, threw |-> TRUE]
            ELSE Bind(Sentence_getCorefGroups(r.G, s, jgroups, i + 1),
                      LAMBDA rest :
                    [G |-> rest.G, items |-> <<r.obj>> \o rest.items,
                     threw |-> rest.threw]))

\* One assignment of the constructor to a derived collection: the list is
\* computed, then stored through the field's setter; a step that threw
\* leaves the constructor.
Sentence_assign(list, s, field) ==
    IF list.threw THEN Ret(list.G, s, TRUE)
    ELSE ReplaceField(list.G, s, field, list.items)

\* The constructor from this.syntaxTree = ... to this.reference = reference,
\* for the sentence s that super(words) left in G.
Sentence_reconstruct(G, s, reference) ==
    Bind(Sentence_reconSyntaxTree(G, s, reference.syntaxTree), LAMBDA tree :
    IF tree.threw THEN Ret(tree.G, s, TRUE) ELSE
    Bind(WriteField(tree.G, "sentences", s, "syntaxTree", tree.obj), LAMBDA r1 :
    IF r1.threw THEN r1 ELSE
    Bind(Sentence_getDepEdges(r1.G, s, reference.dependencies, 1), LAMBDA deps :
    Bind(Sentence_assign(deps, s, "dependencies"), LAMBDA r2 :
    IF r2.threw THEN r2 ELSE
    Bind(Sentence_getRoles(r2.G, s, reference.roles, 1), LAMBDA roles :
    Bind(Sentence_assign(roles, s, "roles"), LAMBDA r3 :
    IF r3.threw THEN r3 ELSE
    Bind(Sentence_getEntities(r3.G, s, reference.entities, 1), LAMBDA ents :
    Bind(Sentence_assign(ents, s, "entities"), LAMBDA r4 :
    IF r4.threw THEN r4 ELSE
    Bind(Sentence_getCorefGroups(r4.G, s, reference.corefGroups, 1), LAMBDA corefs :
    Bind(Sentence_assign(corefs, s, "corefGroups"), LAMBDA r5 :
    IF r5.threw THEN r5 ELSE
    Ret([r5.G EXCEPT !.sentences[s].reference = <<reference>>], s, FALSE)
    ))))))))))

\* new Sentence(undefined, reference)
Sentence_fromJava(G, reference) ==
    Bind(Sentence_words(G, reference.words, 1), LAMBDA ws :
        IF ws.threw THEN Ret(ws.G, undefined, TRUE)
        ELSE Bind(Sentence_super(ws.G, ws.items), LAMBDA r0 :
             Bind(Sentence_reconstruct(r0.G, r0.obj, reference), LAMBDA r :
                IF r.threw THEN Finish(r, "sentences", r0.obj)
                ELSE Bind(Sentence_link(r.G, r0.obj, ws.items, 1), LAMBDA r7 :
                        Finish(r7, "sentences", r0.obj)))))

\* sentence.reference, the getter of JavaMixin, for a reconstructed
\* sentence: the reference it was given.
Sentence_reference(G, s) == G.sentences[s].reference

(***************************************************************************)
(* The record of a call made by client code, and the step that makes it:   *)
(* the heaps become what the call leaves behind.                           *)
(***************************************************************************)
Call(op, cls, obj, field, threw) ==
    [op |-> op, cls |-> cls, obj |-> obj, field |-> field, threw |-> threw,
     result |-> <<>>, arg |-> <<>>]

Commit(G, c) ==
    /\ morphemes' = G.morphemes
    /\ words' = G.words
    /\ trees' = G.trees
    /\ edges' = G.edges
    /\ entities' = G.entities
    /\ groups' = G.groups
    /\ sentences' = G.sentences
    /\ call' = c
    /\ UNCHANGED assertThrows

\* A call that only reads.
Query(c) ==
    /\ call' = c
    /\ UNCHANGED <<assertThrows, morphemes, words, trees, edges, entities,
                   groups, sentences>>

(***************************************************************************)
(* Constructor calls made by client code.                                  *)
(***************************************************************************)
Morpheme_new(surface, tag) ==
    /\ Len(morphemes) < MaxMorphemes
    /\ LET r == Morpheme_constructor(Graph, surface, tag, noReference)
       IN  Commit(r.G, Call("new", "Morpheme", r.obj, "", r.threw))

Word_new(surface, ms) ==
    /\ Len(words) < MaxWords
    /\ LET r == Word_constructor(Graph, surface, ms, noReference)
       IN  Commit(r.G, Call("new", "Word", r.obj, "", r.threw))

SyntaxTree_new(label, terminal, children) ==
    /\ Len(trees) < MaxTrees
    /\ LET r == SyntaxTree_constructor(Graph, label, terminal, children)
       IN  Commit(r.G, Call("new", "Tree", r.obj, "", r.threw))

Entity_new(surface, label, fineLabel, ms) ==
    /\ Len(entities) < MaxEntities
    /\ LET r == Entity_constructor(Graph, surface, label, fineLabel, ms)
       IN  Commit(r.G, Call("new", "Entity", r.obj, "", r.threw))

CoreferenceGroup_new(es) ==
    /\ Len(groups) < MaxGroups
    /\ LET r == CoreferenceGroup_constructor(Graph, es)
       IN  Commit(r.G, Call("new", "CoreferenceGroup", r.obj, "", r.threw))

Sentence_new(ws) ==
    /\ Len(sentences) < MaxSentences
    /\ LET r == Sentence_constructor(Graph, ws)
       IN  Commit(r.G, Call("new", "Sentence", r.obj, "", r.threw))

\* new Sentence(undefined, reference)
Sentence_newFromJava(reference) ==
    LET r == Sentence_fromJava(Graph, reference)
    IN  Commit(r.G, [Call("fromJava", "Sentence", r.obj, "", r.threw)
                        EXCEPT !.arg = <<reference>>])

\* sentence.reference read by client code.
Sentence_getReference(s) ==
    Query([Call("reference", "Sentence", s, "", FALSE)
              EXCEPT !.result = Sentence_reference(Graph, s)])

(***************************************************************************)
(* Assignments made by client code to the one-time-write fields and to a   *)
(* Sentence's derived collections.                                         *)
(***************************************************************************)
\* The heap of a class, by name and by value.
HeapName(cls) ==
    CASE cls = "Morpheme" -> "morphemes"
      [] cls = "Word" -> "words"
      [] cls = "Tree" -> "trees"
      [] cls = "Entity" -> "entities"
      [] cls = "CoreferenceGroup" -> "groups"
      [] cls = "Sentence" -> "sentences"

HeapOf(cls) == Graph[HeapName(cls)]

\* obj.field = v for a one-time-write field of an object of class cls.
Field_set(cls, obj, field, v) ==
    LET r == WriteField(Graph, HeapName(cls), obj, field, v)
    IN  Commit(r.G, Call("set", cls, obj, field, r.threw))

\* morpheme.id = v, morpheme.word = v
Morpheme_set(m, field, v) == Field_set("Morpheme", m, field, v)

\* word.id = v, word.phrase = v, word.governorEdge = v
Word_set(w, field, v) == Field_set("Word", w, field, v)

\* tree.parent = v
Tree_set(t, field, v) == Field_set("Tree", t, field, v)

\* entity.corefGroup = v
Entity_set(e, field, v) == Field_set("Entity", e, field, v)

\* sentence.syntaxTree = v
Sentence_set(s, field, v) == Field_set("Sentence", s, field, v)

\* sentence.dependencies = v, .roles = v, .entities = v, .corefGroups = v
Sentence_replace(s, field, v) ==
    LET r == ReplaceField(Graph, s, field, v)
    IN  Commit(r.G, Call("replace", "Sentence", s, field, r.threw))

WriteOnceFields(cls) ==
    CASE cls = "Morpheme" -> {"id", "word"}
      [] cls = "Word" -> {"id", "phrase", "governorEdge"}
      [] cls = "Tree" -> {"parent"}
      [] cls = "Entity" -> {"corefGroup"}
      [] cls = "Sentence" -> {"syntaxTree"}

ReplaceableFields == {"dependencies", "roles", "entities", "corefGroups"}

(***************************************************************************)
(* ImmutableArray: the sequence operations of a Word, Sentence, Entity,    *)
(* CoreferenceGroup or Tree.  copyWithin, pop, push, sort and fill are     *)
(* overridden to throw; everything else is Array's own method.             *)
(***************************************************************************)
Overridden == {"copyWithin", "pop", "push", "sort", "fill"}

Inherited == {"shift", "unshift", "reverse"}

Reverse(s) == [i \in 1..Len(s) |-> s[Len(s) + 1 - i]]

\* What array.op(arg) leaves in the array, and whether it threw.
ImmutableArray_call(op, items, arg) ==
    IF op \in Overridden THEN [items |-> items, threw |-> TRUE]
    ELSE [items |-> CASE op = "shift" ->
                            IF Len(items) = 0 THEN items ELSE Tail(items)
                      [] op = "unshift" -> <<arg>> \o items
                      [] op = "reverse" -> Reverse(items),
          threw |-> FALSE]

ImmutableArrays == {"Word", "Sentence", "Entity", "CoreferenceGroup", "Tree"}

ImmutableArray_op(cls, obj, op, arg) ==
    /\ op = "unshift" => Len(HeapOf(cls)[obj].items) < MaxLen
    /\ LET r == ImmutableArray_call(op, HeapOf(cls)[obj].items, arg)
       IN  Commit([Graph EXCEPT ![HeapName(cls)][obj].items = r.items],
                  Call(op, cls, obj, "", r.threw))

(***************************************************************************)
(* Tree.getTerminals                                                       *)
(***************************************************************************)
\* (x, y) => x.id - y.id, as Array.prototype.sort reads it: x goes after y
\* when the difference is positive.  With an undefined id the difference is
\* NaN, which is not positive.
comparePositive(x, y) ==
    /\ isDefined(words[x].id)
    /\ isDefined(words[y].id)
    /\ words[x].id - words[y].id > 0

\* One step of the (stable, insertion) sort: x is put after the last
\* element it does not have to precede.
RECURSIVE sortInsert(_, _)
sortInsert(sorted, x) ==
    IF Len(sorted) = 0 THEN <<x>>
    ELSE IF comparePositive(sorted[Len(sorted)], x)
         THEN Append(sortInsert(SubSeq(sorted, 1, Len(sorted) - 1), x),
                     sorted[Len(sorted)])
         ELSE Append(sorted, x)

RECURSIVE sort(_)
sort(leaves) ==
    IF Len(leaves) = 0 THEN <<>>
    ELSE sortInsert(sort(SubSeq(leaves, 1, Len(leaves) - 1)), leaves[Len(leaves)])

\* this.reduce((acc, child) => acc.concat(child.getTerminals()), []), the
\* terminal of this node pushed last, and the whole sorted.
RECURSIVE getTerminals(_)
RECURSIVE gatherTerminals(_, _)
gatherTerminals(children, i) ==
    IF i > Len(children) THEN <<>>
    ELSE getTerminals(children[i]) \o gatherTerminals(children, i + 1)

\* The leaves as gathered, before they are sorted.
leavesOf(t) ==
    LET gathered == gatherTerminals(trees[t].items, 1)
    IN  IF trees[t].terminal # undefined
        THEN Append(gathered, trees[t].terminal)
        ELSE gathered

\* A slip: the children's leaves are sorted, this node's terminal is pushed
\* after the sort.
getTerminals_pushAfterSort(t) ==
    LET gathered == sort(gatherTerminals(trees[t].items, 1))
    IN  IF trees[t].terminal # undefined
        THEN Append(gathered, trees[t].terminal)
        ELSE gathered

\* A slip: a node that has children leaves its own terminal out.
getTerminals_childrenOnly(t) ==
    LET gathered == gatherTerminals(trees[t].items, 1)
        leaves == IF trees[t].terminal # undefined /\ Len(trees[t].items) = 0
                  THEN Append(gathered, trees[t].terminal)
                  ELSE gathered
    IN  sort(leaves)

getTerminals(t) ==
    LET gathered == gatherTerminals(trees[t].items, 1)
        leaves == IF trees[t].terminal # undefined
                  THEN Append(gathered, trees[t].terminal)
                  ELSE gathered
    IN  sort(leaves)

Tree_getTerminals(t) ==
    Query([Call("getTerminals", "Tree", t, "", FALSE)
              EXCEPT !.result = getTerminals(t)])

(***************************************************************************)
(* The part-of-speech vocabulary (types.js): a tag is the sequence of the  *)
(* characters of its name.                                                 *)
(***************************************************************************)
NNG == <<"N", "N", "G">>
VV == <<"V", "V">>
MAG == <<"M", "A", "G">>
ETN == <<"E", "T", "N">>
ETM == <<"E", "T", "M">>
XSN == <<"X", "S", "N">>
XSV == <<"X", "S", "V">>
XSA == <<"X", "S", "A">>
XSM == <<"X", "S", "M">>
NF == <<"N", "F">>
NV == <<"N", "V">>
NA == <<"N", "A">>

\* tag.startsWith(prefix): the tag's name begins with the prefix.
POS_startsWith(tag, prefix) ==
    /\ Len(prefix) <= Len(tag)
    /\ SubSeq(tag, 1, Len(prefix)) = prefix

\* The category rules of the vocabulary: nouns are the N tags that are not
\* the unknown-word tags, predicates the V tags, modifiers the M tags.
POS_isUnknown(tag) == tag \in {NF, NV, NA}

POS_isNoun(tag) == POS_startsWith(tag, <<"N">>) /\ ~POS_isUnknown(tag)

POS_isPredicate(tag) == POS_startsWith(tag, <<"V">>)

POS_isModifier(tag) == POS_startsWith(tag, <<"M">>)

(***************************************************************************)
(* Morpheme's classification predicates.                                   *)
(***************************************************************************)
Morpheme_isNoun(m) == POS_isNoun(morphemes[m].tag)

Morpheme_isPredicate(m) == POS_isPredicate(morphemes[m].tag)

Morpheme_isModifier(m) == POS_isModifier(morphemes[m].tag)

Morpheme_hasTag(m, partialTag) == POS_startsWith(morphemes[m].tag, partialTag)

\* A variant that tests the first of the tags only.
Morpheme_hasTagOneOf_firstOnly(m, tags) ==
    /\ Len(tags) > 0
    /\ POS_startsWith(morphemes[m].tag, tags[1])

\* tags.some((t) => this.tag.startsWith(t))
Morpheme_hasTagOneOf(m, tags) ==
    \E k \in DOMAIN tags : POS_startsWith(morphemes[m].tag, tags[k])

(***************************************************************************)
(* Sentence.nouns, Sentence.verbs, Sentence.modifiers                      *)
(***************************************************************************)
\* _.findIndex over the outcomes of the predicate on the elements: the
\* 0-based index of the first element it holds of, or -1.
findIndex(tests) ==
    LET hits == {i \in DOMAIN tests : tests[i]}
    IN  IF hits = {} THEN 0 - 1 ELSE Min(hits) - 1

\* _.findLastIndex: the 0-based index of the last element the predicate
\* holds of, or -1.
findLastIndex(tests) ==
    LET hits == {i \in DOMAIN tests : tests[i]}
    IN  IF hits = {} THEN 0 - 1 ELSE Max(hits) - 1

nouns_inclusion(m) == Morpheme_isNoun(m) \/ Morpheme_hasTagOneOf(m, <<ETN, XSN>>)

nouns_exclusion(m) == Morpheme_hasTagOneOf(m, <<XSV, XSA, XSM>>)

\* A slip: a word qualifies as soon as an inclusion position exists.
nouns_test_anyInclusion(word) ==
    findIndex([i \in DOMAIN words[word].items |->
                            nouns_inclusion(words[word].items[i])]) # 0 - 1

nouns_test(word) ==
    LET inclusion == findIndex([i \in DOMAIN words[word].items |->
                            nouns_inclusion(words[word].items[i])])
        exclusion == findLastIndex([i \in DOMAIN words[word].items |->
                            nouns_exclusion(words[word].items[i])])
    IN  inclusion # 0 - 1 /\ inclusion > exclusion

\* The words pushed to `result` by the loop over the sentence, in order.
nouns(s) == SelectSeq(sentences[s].items, nouns_test)

verbs_inclusion(m) == Morpheme_isPredicate(m) \/ morphemes[m].tag = XSV

verbs_exclusion(m) == Morpheme_hasTagOneOf(m, <<ETN, ETM, XSN, XSA, XSM>>)

verbs_test(word) ==
    LET inclusion == findIndex([i \in DOMAIN words[word].items |->
                            verbs_inclusion(words[word].items[i])])
        exclusion == findLastIndex([i \in DOMAIN words[word].items |->
                            verbs_exclusion(words[word].items[i])])
    IN  inclusion # 0 - 1 /\ inclusion > exclusion

verbs(s) == SelectSeq(sentences[s].items, verbs_test)

modifiers_inclusion(m) ==
    Morpheme_isPredicate(m) \/ Morpheme_hasTagOneOf(m, <<ETM, XSA, XSM>>)

modifiers_exclusion(m) == Morpheme_hasTagOneOf(m, <<ETN, XSN, XSV>>)

modifiers_test(word) ==
    LET inclusion == findIndex([i \in DOMAIN words[word].items |->
                            modifiers_inclusion(words[word].items[i])])
        exclusion == findLastIndex([i \in DOMAIN words[word].items |->
                            modifiers_exclusion(words[word].items[i])])
    IN  inclusion # 0 - 1 /\ inclusion > exclusion

modifiers(s) == SelectSeq(sentences[s].items, modifiers_test)

\* sentence.nouns, sentence.verbs, sentence.modifiers read by client code.
Sentence_get(s, view) ==
    Query([Call(view, "Sentence", s, "", FALSE)
              EXCEPT !.result = CASE view = "nouns" -> nouns(s)
                                  [] view = "verbs" -> verbs(s)
                                  [] view = "modifiers" -> modifiers(s)])

(***************************************************************************)
(* Initial state and specifications.                                       *)
(***************************************************************************)
Init ==
    /\ assertThrows \in BOOLEAN
    /\ morphemes = <<>>
    /\ words = <<>>
    /\ trees = <<>>
    /\ edges = <<>>
    /\ entities = <<>>
    /\ groups = <<>>
    /\ sentences = <<>>
    /\ call = Call("init", "", undefined, "", FALSE)

\* The trees no node has taken as a child yet.
Roots == {t \in Done(trees) : ~isDefined(trees[t].parent)}

\* The morphemes no word has taken yet.
FreeMorphemes == {m \in Done(morphemes) : ~isDefined(morphemes[m].word)}

(***************************************************************************)
(* SpecTree: words, one sentence over them, and syntax trees over the      *)
(* words.                                                                  *)
(***************************************************************************)
NextTree ==
    \/ Morpheme_new("a", NNG)
    \/ \E m \in FreeMorphemes :
            /\ \A k \in FreeMorphemes : m <= k
            /\ Word_new("a", <<m>>)
    \/ \E ws \in SeqsUpTo(Done(words), MaxWords) :
            /\ Distinct(ws)
            /\ Len(sentences) < 1
            /\ Sentence_new(ws)
    \/ \E w \in Done(words) \cup {undefined}, ch \in SeqsUpTo(Roots, MaxLen) :
            /\ Distinct(ch)
            /\ SyntaxTree_new("NP", w, ch)
    \/ \E t \in Done(trees) : Tree_getTerminals(t)

SpecTree == Init /\ [][NextTree]_vars

(***************************************************************************)
(* SpecWord: morphemes and words made of any of them.                      *)
(***************************************************************************)
NextWord ==
    \/ \E sf \in {"a", "b"} : Morpheme_new(sf, NNG)
    \/ \E ms \in SeqsUpTo(Done(morphemes), MaxLen) : Word_new("a", ms)

SpecWord == Init /\ [][NextWord]_vars

(***************************************************************************)
(* SpecArray: one object of every class that extends ImmutableArray,       *)
(* built class after class, and the sequence operations on them.           *)
(***************************************************************************)
ArrayOps == Overridden \cup Inherited

\* The values client code has at hand to put into an array of a class.
ElementsOf(cls) ==
    CASE cls = "Word" -> Done(morphemes)
      [] cls = "Entity" -> Done(morphemes)
      [] cls = "Sentence" -> Done(words)
      [] cls = "CoreferenceGroup" -> Done(entities)
      [] cls = "Tree" -> {}

NextArray ==
    \/ /\ Len(morphemes) < 1
       /\ Morpheme_new("a", NNG)
    \/ \E m \in FreeMorphemes :
            /\ Len(words) < 1
            /\ Word_new("a", <<m>>)
    \/ \E m \in Done(morphemes) :
            /\ Len(words) = 1
            /\ Len(entities) < 1
            /\ Entity_new("a", "PS", "x", <<m>>)
    \/ \E e \in Done(entities) :
            /\ Len(groups) < 1
            /\ CoreferenceGroup_new(<<e>>)
    \/ \E w \in Done(words) :
            /\ Len(groups) = 1
            /\ Len(sentences) < 1
            /\ Sentence_new(<<w>>)
    \/ /\ Len(sentences) = 1
       /\ Len(trees) < 2
       /\ SyntaxTree_new("NP", undefined, AscendingSeq(Roots))
    \/ \E cls \in ImmutableArrays, op \in Overridden :
            \E obj \in Done(HeapOf(cls)) :
                ImmutableArray_op(cls, obj, op, undefined)
    \/ \E cls \in ImmutableArrays, op \in {"shift", "reverse"} :
            \E obj \in Done(HeapOf(cls)) :
                ImmutableArray_op(cls, obj, op, undefined)
    \/ \E cls \in ImmutableArrays :
            \E obj \in Done(HeapOf(cls)), arg \in ElementsOf(cls) :
                ImmutableArray_op(cls, obj, "unshift", arg)

SpecArray == Init /\ [][NextArray]_vars

(***************************************************************************)
(* SpecFields: one object of every class that has one-time-write fields,   *)
(* and assignments to those fields.                                        *)
(***************************************************************************)
NextFields ==
    \/ /\ Len(morphemes) < 1
       /\ Morpheme_new("a", NNG)
    \/ \E m \in FreeMorphemes : Word_new("a", <<m>>)
    \/ /\ Len(trees) < 2
       /\ SyntaxTree_new("NP", undefined, <<>>)
    \/ \E m \in Done(morphemes) :
            /\ Len(entities) < 1
            /\ Entity_new("a", "PS", "x", <<m>>)
    \/ /\ Len(groups) < 1
       /\ CoreferenceGroup_new(<<>>)
    \/ /\ Len(sentences) < 1
       /\ Sentence_new(<<>>)
    \/ \E m \in Done(morphemes), v \in 0..1 : Morpheme_set(m, "id", v)
    \/ \E m \in Done(morphemes), w \in Done(words) : Morpheme_set(m, "word", w)
    \/ \E w \in Done(words), v \in 0..1 : Word_set(w, "id", v)
    \/ \E w \in Done(words), t \in Done(trees) : Word_set(w, "phrase", t)
    \/ \E w \in Done(words) : Word_set(w, "governorEdge", 1)
    \/ \E t, p \in Done(trees) : t # p /\ Tree_set(t, "parent", p)
    \/ \E e \in Done(entities), g \in Done(groups) :
            Entity_set(e, "corefGroup", g)
    \/ \E s \in Done(sentences), t \in Done(trees) :
            Sentence_set(s, "syntaxTree", t)

SpecFields == Init /\ [][NextFields]_vars

(***************************************************************************)
(* SpecSentence: words and sentences over any of them.                     *)
(***************************************************************************)
NextSentence ==
    \/ Morpheme_new("a", NNG)
    \/ \E m \in FreeMorphemes :
            /\ \A k \in FreeMorphemes : m <= k
            /\ Word_new("a", <<m>>)
    \/ \E ws \in SeqsUpTo(Done(words), MaxWords) : Sentence_new(ws)

SpecSentence == Init /\ [][NextSentence]_vars

(***************************************************************************)
(* SpecDerived: one sentence and assignments to its derived collections.   *)
(***************************************************************************)
NextDerived ==
    \/ /\ Len(morphemes) < 1
       /\ Morpheme_new("a", NNG)
    \/ \E m \in FreeMorphemes : Word_new("a", <<m>>)
    \/ \E ws \in SeqsUpTo(Done(words), 1) :
            /\ Len(sentences) < 1
            /\ Sentence_new(ws)
    \/ \E s \in Done(sentences), f \in ReplaceableFields,
          v \in SeqsUpTo(1..2, 1) :
            Sentence_replace(s, f, v)

SpecDerived == Init /\ [][NextDerived]_vars

(***************************************************************************)
(* SpecCoref: morphemes, entities over them and coreference groups over    *)
(* any of the entities.                                                    *)
(***************************************************************************)
NextCoref ==
    \/ /\ Len(morphemes) < 2
       /\ Morpheme_new("a", NNG)
    \/ \E ms \in SeqsUpTo(Done(morphemes), MaxLen), fl \in {"x", "y"} :
            Entity_new("a", "PS", fl, ms)
    \/ \E es \in SeqsUpTo(Done(entities), MaxLen) :
            CoreferenceGroup_new(es)

SpecCoref == Init /\ [][NextCoref]_vars

(***************************************************************************)
(* SpecRecon: one sentence reconstructed from a foreign sentence, and its   *)
(* reference read back.  The foreign sentences have two words of one      *)
(* morpheme each and every combination of a phrase tree, dependency edges, *)
(* a role edge, an entity and a coreference group.                         *)
(***************************************************************************)
JWords ==
    <<[surface |-> "a", morphemes |-> <<[surface |-> "a", tag |-> NNG]>>],
      [surface |-> "b", morphemes |-> <<[surface |-> "b", tag |-> VV]>>]>>

JLeaf(label, pos) == [label |-> label, terminal |-> pos, children |-> <<>>]

\* No tree, a single leaf, a phrase node over two leaves.
JTrees ==
    {<<>>,
     <<JLeaf("NP", 0)>>,
     <<[label |-> "S", terminal |-> undefined,
        children |-> <<JLeaf("NP", 0), JLeaf("VP", 1)>>]>>}

JDeps ==
    {<<>>,
     <<[governor |-> undefined, dependent |-> 1, type |-> "VP",
        depType |-> "ROOT"],
       [governor |-> 1, dependent |-> 0, type |-> "NP",
        depType |-> undefinedString]>>}

JRoles ==
    {<<>>,
     <<[predicate |-> 1, argument |-> 0, label |-> "ARG0", modifiers |-> <<>>]>>,
     <<[predicate |-> 1, argument |-> 0, label |-> "ARG0", modifiers |-> <<0>>]>>}

JEntity ==
    [surface |-> "a", label |-> "PS", fineLabel |-> "PS_NAME",
     morphemes |-> <<[word |-> 0, id |-> 0]>>]

\* The entities and the coreference groups over them: none, an entity in no
\* group, an entity and a group without members, an entity in a group.
JEntities ==
    {[entities |-> <<>>, corefGroups |-> <<>>],
     [entities |-> <<JEntity>>, corefGroups |-> <<>>],
     [entities |-> <<JEntity>>, corefGroups |-> << <<>> >>],
     [entities |-> <<JEntity>>, corefGroups |-> << <<JEntity>> >>]}

ForeignSentences ==
    {[words |-> JWords, syntaxTree |-> t, dependencies |-> d, roles |-> r,
      entities |-> e.entities, corefGroups |-> e.corefGroups] :
        t \in JTrees, d \in JDeps, r \in JRoles, e \in JEntities}

NextRecon ==
    \/ \E f \in ForeignSentences :
            /\ Len(sentences) < 1
            /\ Sentence_newFromJava(f)
    \/ \E s \in Done(sentences) : Sentence_getReference(s)

SpecRecon == Init /\ [][NextRecon]_vars

(***************************************************************************)
(* SpecLex: morphemes of every tag, words made of the morphemes not yet in *)
(* a word, sentences made of the words not yet in a sentence, and the      *)
(* lexical-class views of the sentences.                                   *)
(***************************************************************************)
LexTags == {NNG, VV, MAG, ETN, ETM, XSN, XSV, XSA, XSM}

FreeWords == {w \in Done(words) : ~isDefined(words[w].id)}

NextLex ==
    \/ \E tag \in LexTags : Morpheme_new("a", tag)
    \/ /\ FreeMorphemes # {}
       /\ Word_new("a", AscendingSeq(FreeMorphemes))
    \/ /\ FreeWords # {}
       /\ Len(sentences) < 1
       /\ Sentence_new(AscendingSeq(FreeWords))
    \/ \E s \in Done(sentences), view \in {"nouns", "verbs", "modifiers"} :
            Sentence_get(s, view)

SpecLex == Init /\ [][NextLex]_vars

(***************************************************************************)
(* Properties of Tree.getTerminals.                                        *)
(***************************************************************************)
\* The position indices of a list of words.
IdsOf(ws) == [i \in DOMAIN ws |-> words[ws[i]].id]

Ascending(ids) == \A i, j \in DOMAIN ids : i < j => ids[i] <= ids[j]

\* C4: for every tree, whatever the order of its children and the shape of
\* its subtree, getTerminals() is sorted ascending by the position index of
\* the terminal words.  A word has a position index once a Sentence holds
\* it; the order is stated for the trees all of whose terminals have one.
C4_TerminalsSorted ==
    \A t \in DOMAIN trees :
        LET ids == IdsOf(getTerminals(t))
        IN  (\A i \in DOMAIN ids : isDefined(ids[i])) => Ascending(ids)

\* C4 witness: getTerminals() was called on a node with two children and a
\* terminal of its own, whose leaves were gathered out of order.
C4_Witness ==
    /\ call.op = "getTerminals"
    /\ Len(call.result) >= 3
    /\ \A i \in DOMAIN call.result : isDefined(words[call.result[i]].id)
    /\ Len(trees[call.obj].items) >= 2
    /\ ~Ascending(IdsOf(leavesOf(call.obj)))
    /\ call.result # leavesOf(call.obj)

(***************************************************************************)
(* Properties of the one-time-write fields and the back references.        *)
(***************************************************************************)
\* C1: once a field installed by writeonlyonce holds a defined value, any
\* later assignment to it fails with an error raised to the caller.
C1_SecondAssignmentRejected ==
    [][(/\ call'.op = "set"
        /\ isDefined(HeapOf(call'.cls)[call'.obj][call'.field]))
            => call'.threw]_vars

\* C2: for every constructed Word w with morphemes m0..mn, in every state
\* after the construction, m_i.id = i and m_i.word = w for every i.
C2_MorphemeBackrefs ==
    \A w \in Done(words) : \A i \in DOMAIN words[w].items :
        /\ morphemes[words[w].items[i]].id = i - 1
        /\ morphemes[words[w].items[i]].word = w

\* C3: for every constructed Sentence s with words w0..wn, w_i.id = i for
\* every i.
C3_WordIds ==
    \A s \in Done(sentences) : \A i \in DOMAIN sentences[s].items :
        words[sentences[s].items[i]].id = i - 1

\* The constructed groups an entity is a member of.
GroupsOf(e) == {g \in Done(groups) : e \in Range(groups[g].items)}

\* C5: no Entity ever belongs to more than one CoreferenceGroup: each Entity
\* is a member of at most one constructed group.
C5_AtMostOneGroup ==
    \A e \in DOMAIN entities : Cardinality(GroupsOf(e)) <= 1

\* C6: every member e of every constructed group g has e.corefGroup = g.
C6_CorefBackrefs ==
    \A g \in Done(groups) : \A i \in DOMAIN groups[g].items :
        entities[groups[g].items[i]].corefGroup = g

\* The elements of every immutable array, by class and object.
AllItems ==
    [cls \in ImmutableArrays |->
        [obj \in DOMAIN HeapOf(cls) |-> HeapOf(cls)[obj].items]]

\* C9: after an immutable sequence is constructed, every operation that
\* would insert, remove, reorder, sort or fill elements is rejected with an
\* error, and its length and elements stay as constructed.
C9_SequencesFrozen ==
    [][/\ call'.op \in ArrayOps => call'.threw
       /\ \A cls \in ImmutableArrays : \A obj \in DOMAIN HeapOf(cls) :
            AllItems'[cls][obj] = AllItems[cls][obj]]_vars

\* C10: a derived collection of a Sentence is set at most once: every
\* assignment made after the field has been given its elements is rejected.
C10_DerivedSetOnce ==
    [][(/\ call'.op = "replace"
        /\ Len(sentences[call'.obj][call'.field]) > 0)
            => call'.threw]_vars

(***************************************************************************)
(* Properties of the lexical-class views.                                  *)
(***************************************************************************)
TagsOf(w) == [i \in DOMAIN words[w].items |-> morphemes[words[w].items[i]].tag]

HasPrefixIn(tag, prefixes) ==
    \E p \in prefixes : Len(p) <= Len(tag) /\ \A k \in DOMAIN p : tag[k] = p[k]

\* The first position of `tags` in `include` exists and lies strictly after
\* the last position in `exclude`.
Qualifies(tags, include, exclude) ==
    \E i \in DOMAIN tags :
        /\ tags[i] \in include
        /\ \A k \in 1..(i - 1) : tags[k] \notin include
        /\ \A j \in DOMAIN tags : tags[j] \in exclude => j < i

NounInclude == {t \in LexTags : POS_isNoun(t) \/ HasPrefixIn(t, {ETN, XSN})}
NounExclude == {t \in LexTags : HasPrefixIn(t, {XSV, XSA, XSM})}
VerbInclude == {t \in LexTags : POS_isPredicate(t) \/ t = XSV}
VerbExclude == {t \in LexTags : HasPrefixIn(t, {ETN, ETM, XSN, XSA, XSM})}
ModifierInclude == {t \in LexTags : POS_isPredicate(t) \/ HasPrefixIn(t, {ETM, XSA, XSM})}
ModifierExclude == {t \in LexTags : HasPrefixIn(t, {ETN, XSN, XSV})}

\* The words of s that qualify, in the order of the sentence.
RECURSIVE Qualifying(_, _, _)
Qualifying(ws, include, exclude) ==
    IF Len(ws) = 0 THEN <<>>
    ELSE (IF Qualifies(TagsOf(Head(ws)), include, exclude)
          THEN <<Head(ws)>> ELSE <<>>)
         \o Qualifying(Tail(ws), include, exclude)

RoundTripInput(f) ==
    /\ Len(f.syntaxTree) > 0
    /\ Len(f.syntaxTree[1].children) > 0
    /\ Len(f.dependencies) > 0
    /\ \E i \in DOMAIN f.roles : Len(f.roles[i].modifiers) > 0
    /\ Len(f.entities) > 0
    /\ Len(f.corefGroups) > 0

C8_ReconstructionRoundTrip ==
    (call.op = "fromJava" /\ RoundTripInput(call.arg[1])) =>
        /\ ~call.threw
        /\ Sentence_reference(Graph, call.obj) = call.arg

(***************************************************************************)
(* Calls of equals made by client code.                                    *)
(***************************************************************************)
\* a.equals(b) answered `result`.
Equals(cls, a, b, result) ==
    Query([Call("equals", cls, a, "", FALSE)
              EXCEPT !.result = <<result>>, !.arg = <<b>>])

Entity_callEquals(a, b) ==
    Equals("Entity", a, b, Entity_equals(Graph, a, EntityView(Graph, b)))

Word_callEquals(a, b) == Equals("Word", a, b, Word_equals(Graph, a, b))

(***************************************************************************)
(* SpecEntityEq: morphemes, free or in a word, entities over them and      *)
(* comparisons of the entities.                                            *)
(***************************************************************************)
NextEntityEq ==
    \/ /\ Len(morphemes) < 2
       /\ Morpheme_new("a", NNG)
    \/ \E m \in FreeMorphemes :
            /\ Len(words) < 1
            /\ Word_new("a", <<m>>)
    \/ \E sf \in {"a", "b"}, fl \in {"x", "y"},
          ms \in SeqsUpTo(Done(morphemes), 1) :
            Entity_new(sf, "PS", fl, ms)
    \/ \E a, b \in Done(entities) : a # b /\ Entity_callEquals(a, b)

SpecEntityEq == Init /\ [][NextEntityEq]_vars

\* Two sequences of morphemes of the same length, pairwise equal under
\* Morpheme equality.
SameMorphemes(as, bs) ==
    /\ Len(as) = Len(bs)
    /\ \A i \in DOMAIN as : Morpheme_equals(Graph, as[i], bs[i])

\* C11: two Entities constructed independently with identical surface,
\* label, fine label and element-wise equal morpheme sequences are equal
\* under Entity.equals; two Entities that differ in fine label, coarse label
\* or surface are not.
C11_EntityEquality ==
    (call.op = "equals" /\ call.cls = "Entity") =>
        LET a == entities[call.obj]
            b == entities[call.arg[1]]
            sameData == /\ a.surface = b.surface
                        /\ a.label = b.label
                        /\ a.fineLabel = b.fineLabel
        IN  /\ (sameData /\ SameMorphemes(a.items, b.items)) => call.result[1]
            /\ ~sameData => ~call.result[1]

(***************************************************************************)
(* Properties of construction.                                             *)
(***************************************************************************)
\* C12: constructing a Word with an empty morpheme sequence fails at
\* construction with an error raised to the caller, so no Word with zero
\* morphemes ever exists.
C12_NoEmptyWord ==
    /\ \A w \in DOMAIN words : Len(words[w].items) > 0
    /\ (call.op = "new" /\ call.cls = "Word" /\ ~call.threw) =>
            Len(words[call.obj].items) > 0

(***************************************************************************)
(* Edges constructed by client code.                                       *)
(***************************************************************************)
MaxEdges == 2

\* The call record of new <kind>(src, dest, label, ...).
Edge_call(kind, r, src, dest, label) ==
    [Call("new", kind, r.obj, "", r.threw) EXCEPT !.arg = <<src, dest, label>>]

\* new DAGEdge(src, dest, label)
DAGEdge_new(src, dest, label) ==
    /\ Len(edges) < MaxEdges
    /\ LET r0 == DAGEdge_constructor(Graph, "DAGEdge", src, dest, label)
           r == IF r0.threw THEN r0 ELSE Finish(r0, "edges", r0.obj)
       IN  Commit(r.G, Edge_call("DAGEdge", r, src, dest, label))

\* new DepEdge(governor, dependent, type, depType)
DepEdge_new(governor, dependent, type, depType) ==
    /\ Len(edges) < MaxEdges
    /\ LET r == DepEdge_constructor(Graph, governor, dependent, type, depType)
       IN  Commit(r.G, Edge_call("DepEdge", r, governor, dependent, depType))

\* new RoleEdge(predicate, argument, label, modifiers)
RoleEdge_new(predicate, argument, label, mods) ==
    /\ Len(edges) < MaxEdges
    /\ LET r == RoleEdge_constructor(Graph, predicate, argument, label, mods)
       IN  Commit(r.G, Edge_call("RoleEdge", r, predicate, argument, label))

(***************************************************************************)
(* SpecEdge: two words and edges of every class between them, with a       *)
(* source, a destination or a label present or missing.                    *)
(***************************************************************************)
EdgeKinds == {"DAGEdge", "DepEdge", "RoleEdge"}

NextEdge ==
    \/ /\ Len(morphemes) < 2
       /\ Morpheme_new("a", NNG)
    \/ \E m \in FreeMorphemes :
            /\ \A k \in FreeMorphemes : m <= k
            /\ Len(words) < 2
            /\ Word_new("a", <<m>>)
    \/ \E src, dest \in Done(words) \cup {undefined} :
            DAGEdge_new(src, dest, "x")
    \/ \E src, dest \in Done(words) \cup {undefined} :
            DepEdge_new(src, dest, "NP", "SBJ")
    \/ \E src, dest \in Done(words) \cup {undefined},
          label \in {"ARG0", undefinedString} :
            RoleEdge_new(src, dest, label, <<>>)

SpecEdge == Init /\ [][NextEdge]_vars

\* C13: constructing an edge with an undefined destination, or a RoleEdge
\* with an undefined predicate or label, fails at construction and writes
\* no governorEdge, dependentEdges, predicateRoles or argumentRoles entry.
C13_BadEdgeRejected ==
    [][(/\ call'.op = "new"
        /\ call'.cls \in EdgeKinds
        /\ \/ ~isDefined(call'.arg[2])
           \/ /\ call'.cls = "RoleEdge"
              /\ (~isDefined(call'.arg[1]) \/ ~isDefinedString(call'.arg[3])))
       => (call'.threw /\ words' = words)]_vars

(***************************************************************************)
(* Equality of edges.  A comparison either answers or fails with a         *)
(* TypeError (reading `equals` of an undefined end).                       *)
(***************************************************************************)
Answer(value) == [threw |-> FALSE, value |-> value]

TypeError == [threw |-> TRUE, value |-> FALSE]

\* DAGEdge.equals: typeof(this) === typeof(other) holds of any two objects;
\* && evaluates from left to right and stops at the first false operand.
DAGEdge_equals(G, a, b) ==
    LET this == G.edges[a]
        other == G.edges[b]
    IN  IF this.label # other.label THEN Answer(FALSE)
        ELSE IF ~isDefined(this.src) THEN TypeError
        ELSE IF ~(isDefined(other.src) /\ Word_equals(G, this.src, other.src))
             THEN Answer(FALSE)
        ELSE IF ~isDefined(this.dest) THEN TypeError
        ELSE Answer(isDefined(other.dest)
                        /\ Word_equals(G, this.dest, other.dest))

\* DepEdge.equals: this._type === other._type && super.equals(other)
DepEdge_equals(G, a, b) ==
    IF G.edges[a].type # G.edges[b].type THEN Answer(FALSE)
    ELSE DAGEdge_equals(G, a, b)

\* a.equals(b), dispatched on the class of a; RoleEdge inherits
\* DAGEdge.equals.
Edge_equals(G, a, b) ==
    IF G.edges[a].kind = "DepEdge" THEN DepEdge_equals(G, a, b)
    ELSE DAGEdge_equals(G, a, b)

Edge_callEquals(a, b) ==
    LET r == Edge_equals(Graph, a, b)
    IN  Query([Call("equals", edges[a].kind, a, "", r.threw)
                  EXCEPT !.result = <<r.value>>, !.arg = <<b>>])

(***************************************************************************)
(* SpecEdgeEq: dependency and role edges over two words, a dependency edge *)
(* possibly a root edge, and comparisons of the edges.                     *)
(***************************************************************************)
NextEdgeEq ==
    \/ /\ Len(morphemes) < 2
       /\ Morpheme_new("a", NNG)
    \/ \E m \in FreeMorphemes :
            /\ \A k \in FreeMorphemes : m <= k
            /\ Len(words) < 2
            /\ Word_new("a", <<m>>)
    \/ \E src \in Done(words) \cup {undefined}, dest \in Done(words),
          label \in {"x", "y"} :
            DepEdge_new(src, dest, "NP", label)
    \/ \E src, dest \in Done(words), label \in {"x", "y"} :
            RoleEdge_new(src, dest, label, <<>>)
    \/ \E a, b \in Done(edges) : Edge_callEquals(a, b)

SpecEdgeEq == Init /\ [][NextEdgeEq]_vars

\* The two ends are both missing, or both present and equal as Words.
SameEnd(v, w) ==
    \/ ~isDefined(v) /\ ~isDefined(w)
    \/ isDefined(v) /\ isDefined(w) /\ Word_equals(Graph, v, w)

\* C14: a.equals(b) answers, and answers true exactly when a and b are of
\* the same concrete class and have the same label, equal sources and equal
\* destinations; in particular a DepEdge and a RoleEdge are never equal and
\* two root edges are compared without a failure.
C14_EdgeEquality ==
    (call.op = "equals" /\ call.cls \in EdgeKinds) =>
        LET a == edges[call.obj]
            b == edges[call.arg[1]]
        IN  /\ ~call.threw
            /\ call.result[1] <=> /\ a.kind = b.kind
                                  /\ a.label = b.label
                                  /\ SameEnd(a.src, b.src)
                                  /\ SameEnd(a.dest, b.dest)

(***************************************************************************)
(* SpecWordEq: words of one or two morphemes, an entity over some of the   *)
(* morphemes, and comparisons of the words.                                *)
(***************************************************************************)
NextWordEq ==
    \/ \E tag \in {NNG, VV} :
            /\ Len(morphemes) < MaxMorphemes
            /\ Morpheme_new("a", tag)
    \/ \E ms \in SeqsUpTo(FreeMorphemes, 2), surface \in {"a", "b"} :
            /\ Len(ms) > 0
            /\ \A i \in 1..(Len(ms) - 1) : ms[i] < ms[i + 1]
            /\ Len(words) < 2
            /\ Word_new(surface, ms)
    \/ \E m \in Done(morphemes) :
            /\ Len(entities) < 1
            /\ Entity_new("a", "PS", "x", <<m>>)
    \/ \E a, b \in Done(words) : a # b /\ Word_callEquals(a, b)

SpecWordEq == Init /\ [][NextWordEq]_vars

\* C15: a.equals(b) of two Words is true exactly when their surfaces are
\* equal and their morphemes are as many and pairwise equal in surface and
\* tag; nothing else about the morphemes matters.
C15_WordEquality ==
    (call.op = "equals" /\ call.cls = "Word") =>
        LET a == words[call.obj]
            b == words[call.arg[1]]
        IN  call.result[1] <=> /\ a.surface = b.surface
                               /\ SameMorphemes(a.items, b.items)

(***************************************************************************)
(* SpecTag: morphemes and calls of hasTagOneOf with up to two prefixes.    *)
(***************************************************************************)
NP == <<"N", "P">>
JX == <<"J", "X">>

TagPrefixes == {<<>>, <<"N">>, NP, NNG, VV, JX, <<"n", "n", "g">>}

\* m.hasTagOneOf(...tags)
Morpheme_callHasTagOneOf(m, tags) ==
    Query([Call("hasTagOneOf", "Morpheme", m, "", FALSE)
              EXCEPT !.result = <<Morpheme_hasTagOneOf(m, tags)>>,
                     !.arg = tags])

NextTag ==
    \/ \E tag \in {NNG, VV, MAG} :
            /\ Len(morphemes) < 2
            /\ Morpheme_new("a", tag)
    \/ \E m \in Done(morphemes), tags \in SeqsUpTo(TagPrefixes, 2) :
            Morpheme_callHasTagOneOf(m, tags)

SpecTag == Init /\ [][NextTag]_vars

OtherDependentsKept(except) ==
    \A v \in DOMAIN words :
        v \notin except => words'[v].dependentEdges = words[v].dependentEdges

C18_LastGovernorWins ==
    [][(/\ call'.op = "new"
        /\ call'.cls = "DepEdge"
        /\ isDefined(call'.arg[2])
        /\ isDefined(words[call'.arg[2]].governorEdge))
       => (/\ ~call'.threw
           /\ words'[call'.arg[2]].governorEdge = call'.obj)]_vars

\* The RoleEdges that have the word w at the end `end`, in construction
\* order.
RoleEdgesAt(w, end) ==
    AscendingSeq({e \in DOMAIN edges :
                    /\ edges[e].kind = "RoleEdge"
                    /\ (IF end = "src" THEN edges[e].src ELSE edges[e].dest) = w})

\* C19: the construction of a RoleEdge r with predicate p, argument a and a
\* label completes, appends r once to a.predicateRoles and once to
\* p.argumentRoles and changes no other role list.  In every state a Word's
\* argumentRoles are the RoleEdges whose source it is and its predicateRoles
\* the RoleEdges whose destination it is, each in construction order.
C19_RoleEdgeRegistration ==
    /\ [][(/\ call'.op = "new"
           /\ call'.cls = "RoleEdge"
           /\ isDefined(call'.arg[1])
           /\ isDefined(call'.arg[2])
           /\ isDefinedString(call'.arg[3]))
          => LET r == call'.obj
                 p == call'.arg[1]
                 a == call'.arg[2]
             IN  /\ ~call'.threw
                 /\ r \notin DOMAIN edges
                 /\ words'[a].predicateRoles = Append(words[a].predicateRoles, r)
                 /\ words'[p].argumentRoles = Append(words[p].argumentRoles, r)
                 /\ \A v \in DOMAIN words :
                        /\ v # a => words'[v].predicateRoles = words[v].predicateRoles
                        /\ v # p => words'[v].argumentRoles = words[v].argumentRoles]_vars
    /\ [](\A w \in DOMAIN words :
            /\ words[w].argumentRoles = RoleEdgesAt(w, "src")
            /\ words[w].predicateRoles = RoleEdgesAt(w, "dest"))

C19_Witness ==
    /\ call.op = "new"
    /\ call.cls = "RoleEdge"
    /\ ~call.threw
    /\ isDefined(call.arg[1])
    /\ isDefined(call.arg[2])
    /\ call.arg[1] # call.arg[2]
    /\ call.obj = 2
    /\ words[call.arg[1]].argumentRoles = <<1, 2>>
    /\ words[call.arg[2]].predicateRoles = <<2>>

(***************************************************************************)
(* SpecNode: nodes of the base class Tree and of SyntaxTree over a word    *)
(* and over any nodes built before.                                        *)
(***************************************************************************)
\* new Tree(label, terminal, children)
Tree_new(label, terminal, children) ==
    /\ Len(trees) < MaxTrees
    /\ LET r == Tree_constructor(Graph, label, terminal, children, FALSE)
       IN  Commit(r.G, Call("new", "Tree", r.obj, "", r.threw))

\* t.isRoot()
Tree_isRoot(t) == ~isDefined(trees[t].parent)

NextNode ==
    \/ /\ Len(morphemes) < 1
       /\ Morpheme_new("a", NNG)
    \/ \E m \in FreeMorphemes :
            /\ Len(words) < 1
            /\ Word_new("a", <<m>>)
    \/ \E w \in Done(words) \cup {undefined}, ch \in SeqsUpTo(Done(trees), MaxLen) :
            /\ Distinct(ch)
            /\ Tree_new("NP", w, ch)
    \/ \E w \in Done(words) \cup {undefined}, ch \in SeqsUpTo(Done(trees), MaxLen) :
            /\ Distinct(ch)
            /\ SyntaxTree_new("NP", w, ch)

SpecNode == Init /\ [][NextNode]_vars

\* C20: when the construction of a node n completes, every child's parent
\* is n and the terminal Word's phrase, if a terminal was given, is n; in
\* every state a constructed node is a root exactly when no constructed
\* node has it among its children.
C20_NodeLinks ==
    /\ [][(call'.op = "new" /\ call'.cls = "Tree" /\ ~call'.threw)
          => LET n == call'.obj
             IN  /\ \A i \in DOMAIN trees'[n].items :
                        trees'[trees'[n].items[i]].parent = n
                 /\ isDefined(trees'[n].terminal)
                        => words'[trees'[n].terminal].phrase = n]_vars
    /\ [](\A t \in Done(trees) :
            Tree_isRoot(t) <=> ~\E n \in Done(trees) : t \in Range(trees[n].items))

(***************************************************************************)
(* SpecEntity: morphemes, entities over any of them, and Array's own       *)
(* methods called on the entities.                                         *)
(***************************************************************************)
NextEntity ==
    \/ /\ Len(morphemes) < 2
       /\ Morpheme_new("a", NNG)
    \/ \E ms \in SeqsUpTo(Done(morphemes), MaxLen) :
            Entity_new("a", "PS", "x", ms)
    \/ \E e \in Done(entities), op \in Inherited, m \in Done(morphemes) :
            ImmutableArray_op("Entity", e, op, m)

SpecEntity == Init /\ [][NextEntity]_vars

\* Every Entity in a morpheme's entities list contains the morpheme, and
\* every Entity is in the entities list of each of its morphemes.
EntityMembership ==
    /\ \A m \in DOMAIN morphemes : \A e \in Range(morphemes[m].entities) :
            m \in Range(entities[e].items)
    /\ \A e \in Done(entities) : \A m \in Range(entities[e].items) :
            e \in Range(morphemes[m].entities)

\* C21: a completed construction of an Entity e appends e to the entities
\* list of each of its morphemes; in every state the Entities in a
\* morpheme's entities list contain the morpheme and every Entity is in the
\* entities list of each of its morphemes.
C21_EntityMembership ==
    /\ [][(call'.op = "new" /\ call'.cls = "Entity" /\ ~call'.threw)
          => \A m \in Range(entities'[call'.obj].items) :
                call'.obj \in Range(morphemes'[m].entities)]_vars
    /\ []EntityMembership

\* C22: every member handed to a CoreferenceGroup during reconstruction is
\* one of the Entities stored in the entities collection of the Sentence,
\* never undefined and never an Entity outside the collection.
C22_CorefMembersNative ==
    \A g \in DOMAIN groups : \A i \in DOMAIN groups[g].items :
        \E s \in DOMAIN sentences :
            groups[g].items[i] \in Range(sentences[s].entities)

(***************************************************************************)
(* SpecWordEnt: words, entities over their morphemes, and the entities of  *)
(* the words read back.                                                    *)
(***************************************************************************)
\* word.getEntities(): return this.entities
Word_getEntities(G, w) == G.words[w].entities

Word_callGetEntities(w) ==
    Query([Call("getEntities", "Word", w, "", FALSE)
              EXCEPT !.result = Word_getEntities(Graph, w)])

NextWordEnt ==
    \/ /\ Len(morphemes) < 2
       /\ Morpheme_new("a", NNG)
    \/ \E m \in FreeMorphemes :
            /\ Len(words) < 2
            /\ Word_new("a", <<m>>)
    \/ \E ms \in SeqsUpTo(Done(morphemes), MaxLen) :
            Entity_new("a", "PS", "x", ms)
    \/ \E w \in Done(words) : Word_callGetEntities(w)

SpecWordEnt == Init /\ [][NextWordEnt]_vars

\* C23: w.getEntities() contains every constructed Entity that has a
\* morpheme of the Word w among its morphemes.
C23_WordEntities ==
    (call.op = "getEntities") =>
        \A e \in Done(entities) :
            (Range(entities[e].items) \cap Range(words[call.obj].items) # {})
                => e \in Range(call.result)

(***************************************************************************)
(* Properties of the lexical-class views, by the ending applied last.      *)
(***************************************************************************)
\* Some position of `tags` is in `include` and no later one in `exclude`.
IncludedUnfollowed(tags, include, exclude) ==
    \E i \in DOMAIN tags :
        /\ tags[i] \in include
        /\ \A j \in DOMAIN tags : j > i => tags[j] \notin exclude

\* The last position of `tags` that is in `include` or in `exclude` exists
\* and is in `include`.
LastDecides(tags, include, exclude) ==
    \E i \in DOMAIN tags :
        /\ tags[i] \in include
        /\ \A j \in DOMAIN tags : j > i => tags[j] \notin (include \cup exclude)

ModifierCategory ==
    {t \in LexTags : POS_isModifier(t) \/ HasPrefixIn(t, {ETM, XSA, XSM})}

\* C24: sentence.modifiers returns the Words that have a modifier-category
\* morpheme, an ETM ending or an XSA/XSM suffix with no ETN/XSN/XSV morpheme
\* after it; a Word of the single tag MAG is returned and a Word of the
\* single tag VV is not.
C24_Modifiers ==
    (call.op = "modifiers") =>
        \A w \in Range(sentences[call.obj].items) :
            /\ w \in Range(call.result)
                <=> IncludedUnfollowed(TagsOf(w), ModifierCategory, ModifierExclude)
            /\ TagsOf(w) = <<MAG>> => w \in Range(call.result)
            /\ TagsOf(w) = <<VV>> => w \notin Range(call.result)

\* C25: sentence.nouns returns a Word exactly when the last of its
\* morphemes that is an inclusion morpheme (noun, ETN, XSN) or an exclusion
\* morpheme (ETM, XSV, XSA, XSM) is an inclusion morpheme; a Word tagged
\* [NNG, XSV, ETN] is returned and a Word tagged [VV, ETN, ETM] is not.
C25_NounsByLastEnding ==
    (call.op = "nouns") =>
        \A w \in Range(sentences[call.obj].items) :
            /\ w \in Range(call.result)
                <=> LastDecides(TagsOf(w), NounInclude,
                                NounExclude \cup {ETM})
            /\ TagsOf(w) = <<NNG, XSV, ETN>> => w \in Range(call.result)
            /\ TagsOf(w) = <<VV, ETN, ETM>> => w \notin Range(call.result)

(***************************************************************************)
(* The accessors of the edges.  A property that neither the class of the   *)
(* edge nor DAGEdge defines reads as undefined.                            *)
(***************************************************************************)
\* The getters src and dest of DAGEdge, governor and dependent of DepEdge,
\* predicate and argument of RoleEdge.
Edge_get(G, e, property) ==
    LET this == G.edges[e]
    IN  CASE property = "src" -> this.src
          [] property = "dest" -> this.dest
          [] property = "governor" /\ this.kind = "DepEdge" -> this.src
          [] property = "dependent" /\ this.kind = "DepEdge" -> this.dest
          [] property = "predicate" /\ this.kind = "RoleEdge" -> this.src
          [] property = "argument" /\ this.kind = "RoleEdge" -> this.dest
          [] OTHER -> undefined

\* getPredicate() { return this.governor; }
RoleEdge_getPredicate(G, e) == Edge_get(G, e, "governor")

\* getArgument() { return this.dependent; }
RoleEdge_getArgument(G, e) == Edge_get(G, e, "dependent")

\* edge.getPredicate() and edge.getArgument() called by client code.
RoleEdge_callGet(e, method) ==
    Query([Call(method, "RoleEdge", e, "", FALSE)
              EXCEPT !.result = <<IF method = "getPredicate"
                                  THEN RoleEdge_getPredicate(Graph, e)
                                  ELSE RoleEdge_getArgument(Graph, e)>>])

(***************************************************************************)
(* SpecRole: role edges between two words and their accessors.             *)
(***************************************************************************)
NextRole ==
    \/ /\ Len(morphemes) < 2
       /\ Morpheme_new("a", NNG)
    \/ \E m \in FreeMorphemes :
            /\ \A k \in FreeMorphemes : m <= k
            /\ Len(words) < 2
            /\ Word_new("a", <<m>>)
    \/ \E predicate, argument \in Done(words), label \in {"ARG0", "ARG1"} :
            RoleEdge_new(predicate, argument, label, <<>>)
    \/ \E e \in Done(edges), method \in {"getPredicate", "getArgument"} :
            RoleEdge_callGet(e, method)

SpecRole == Init /\ [][NextRole]_vars

\* C26: on every RoleEdge getPredicate() returns the Word the predicate
\* accessor returns, the source of the edge, and getArgument() the Word the
\* argument accessor returns, the destination of the edge.
C26_RoleEdgeGetters ==
    /\ call.op = "getPredicate" =>
            /\ call.result[1] = Edge_get(Graph, call.obj, "predicate")
            /\ call.result[1] = edges[call.obj].src
    /\ call.op = "getArgument" =>
            /\ call.result[1] = Edge_get(Graph, call.obj, "argument")
            /\ call.result[1] = edges[call.obj].dest

\* C27: an assignment to a one-time-write field that already holds a
\* defined value leaves the value as it was, so every later read returns the
\* first defined value.
C27_WriteOnceValueKept ==
    [][(/\ call'.op = "set"
        /\ isDefined(HeapOf(call'.cls)[call'.obj][call'.field]))
       => (HeapOf(call.cls)[call.obj][call.field])'
            = HeapOf(call'.cls)[call'.obj][call'.field]]_vars

(***************************************************************************)
(* Properties of Tree.getTerminals: the terminals of the subtree.          *)
(***************************************************************************)
\* The nodes of the subtree of t, t included.
RECURSIVE Subtree(_)
Subtree(t) ==
    {t} \cup UNION {Subtree(trees[t].items[i]) : i \in DOMAIN trees[t].items}

\* The nodes of the subtree of t that carry the Word w as their terminal.
Carriers(t, w) == {n \in Subtree(t) : trees[n].terminal = w}

\* How often w occurs in the list ws.
Occurrences(ws, w) == Cardinality({i \in DOMAIN ws : ws[i] = w})

RECURSIVE EntitiesWith(_, _)
EntitiesWith(es, m) ==
    IF Len(es) = 0 THEN <<>>
    ELSE (IF m \in Range(entities[Head(es)].items) THEN <<Head(es)>> ELSE <<>>)
         \o EntitiesWith(Tail(es), m)

\* C29: when a Sentence has been reconstructed from a foreign sentence, the
\* entities list of every morpheme holds exactly the Entities of the
\* Sentence's entities collection that include the morpheme, each once: the
\* translation of the coreference groups has added none.
C29_NoExtraEntities ==
    (call.op = "fromJava") =>
        \A m \in DOMAIN morphemes :
            morphemes[m].entities
                = EntitiesWith(sentences[call.obj].entities, m)

(***************************************************************************)
(* JavaMixin: the accessors of the foreign reference.  A stored reference  *)
(* is the empty tuple while undefined (or null) and <<value>> once         *)
(* defined.                                                                *)
(***************************************************************************)
\* word._initReference(): the foreign word of the surface and of the
\* references of the morphemes.
Word_initReference(G, w) ==
    [surface |-> G.words[w].surface,
     morphemes |-> [i \in DOMAIN G.words[w].items |->
                        G.morphemes[G.words[w].items[i]].reference]]

\* this._initReference() of a Morpheme, a Word or a node of the base class
\* Tree, which inherits the implementation that throws.
JavaMixin_initReference(G, cls, obj) ==
    CASE cls = "Morpheme" ->
            [threw |-> FALSE,
             value |-> <<Morpheme_initReference(G.morphemes[obj].surface,
                                                G.morphemes[obj].tag)>>]
      [] cls = "Word" ->
            [threw |-> FALSE, value |-> <<Word_initReference(G, obj)>>]
      [] cls = "Tree" -> [threw |-> TRUE, value |-> noReference]

\* get reference(): a reference not yet defined is created and stored.
JavaMixin_get(G, cls, obj) ==
    LET stored == G[HeapName(cls)][obj].reference
        init == JavaMixin_initReference(G, cls, obj)
    IN  IF stored # noReference
        THEN [G |-> G, value |-> stored, invoked |-> FALSE, threw |-> FALSE]
        ELSE IF init.threw
        THEN [G |-> G, value |-> noReference, invoked |-> TRUE, threw |-> TRUE]
        ELSE [G |-> [G EXCEPT ![HeapName(cls)][obj].reference = init.value],
              value |-> init.value, invoked |-> TRUE, threw |-> FALSE]

\* A variant of the setter without the guard.
JavaMixin_set_unguarded(G, cls, obj, value) ==
    Ret([G EXCEPT ![HeapName(cls)][obj].reference = value], obj, FALSE)

\* set reference(value): a TypeError once a reference is defined.
JavaMixin_set(G, cls, obj, value) ==
    IF G[HeapName(cls)][obj].reference # noReference
    THEN Ret(G, obj, TRUE)
    ELSE Ret([G EXCEPT ![HeapName(cls)][obj].reference = value], obj, FALSE)

\* obj.reference read by client code.
Reference_get(cls, obj) ==
    LET r == JavaMixin_get(Graph, cls, obj)
    IN  Commit(r.G, [Call("getReference", cls, obj, "", r.threw)
                        EXCEPT !.result = r.value, !.arg = <<r.invoked>>])

\* obj.reference = value by client code.
Reference_set(cls, obj, value) ==
    LET r == JavaMixin_set(Graph, cls, obj, value)
    IN  Commit(r.G, [Call("setReference", cls, obj, "", r.threw)
                        EXCEPT !.arg = value])

(***************************************************************************)
(* SpecRef: a morpheme, a word and a node of the base class Tree, and      *)
(* reads of and assignments to their references.                           *)
(***************************************************************************)
RefClasses == {"Morpheme", "Word", "Tree"}

\* The values client code assigns: undefined and two foreign objects.
ForeignValues == {noReference, <<[foreign |-> 1]>>, <<[foreign |-> 2]>>}

NextRef ==
    \/ /\ Len(morphemes) < 1
       /\ Morpheme_new("a", NNG)
    \/ \E m \in FreeMorphemes :
            /\ Len(words) < 2
            /\ Word_new("a", <<m>>)
    \/ /\ Len(trees) < 1
       /\ Tree_new("NP", undefined, <<>>)
    \/ \E cls \in RefClasses : \E obj \in Done(HeapOf(cls)) :
            Reference_get(cls, obj)
    \/ \E cls \in RefClasses, value \in ForeignValues :
            \E obj \in Done(HeapOf(cls)) : Reference_set(cls, obj, value)

SpecRef == Init /\ [][NextRef]_vars

\* The stored reference of the object of the call to come.
ReferenceBefore == HeapOf(call'.cls)[call'.obj].reference

ReferenceAfter == (HeapOf(call.cls)[call.obj].reference)'

\* C30: a defined reference never changes.  A read of a defined reference
\* returns it without a call of _initReference; an assignment to a defined
\* reference throws and leaves it; an assignment to an undefined reference
\* succeeds and stores the value.
C30_ReferenceWriteOnce ==
    [][/\ \A cls \in RefClasses : \A obj \in DOMAIN HeapOf(cls) :
            HeapOf(cls)[obj].reference # noReference
                => (HeapOf(cls)[obj].reference)' = HeapOf(cls)[obj].reference
       /\ (call'.op = "getReference" /\ ReferenceBefore # noReference)
            => /\ ~call'.threw
               /\ call'.result = ReferenceBefore
               /\ call'.arg = <<FALSE>>
       /\ (call'.op = "setReference" /\ ReferenceBefore # noReference)
            => call'.threw
       /\ (call'.op = "setReference" /\ ReferenceBefore = noReference)
            => (~call'.threw /\ ReferenceAfter = call'.arg)]_vars

\* C30 witness: the reference of a Word, created by its first read, was
\* read again, or an assignment to it was refused.
C30_Witness ==
    /\ call.cls = "Word"
    /\ words[call.obj].reference = <<Word_initReference(Graph, call.obj)>>
    /\ \/ call.op = "getReference" /\ call.arg = <<FALSE>>
       \/ call.op = "setReference" /\ call.threw /\ call.arg # noReference

=============================================================================
